---- MODULE Spec2Model ----
(***************************************************************************)
(* A model of four parts of scvi-tools:                                    *)
(*   - the differential-expression engine of scvi/model/base/_utils.py     *)
(*     (_prepare_obs, _de_core, _fdr_de_prediction),                       *)
(*   - the DistributionsConcatenator of the same file,                     *)
(*   - the WVAE module of scvi/external/wscvi/_module.py (inference,       *)
(*     generative, estimate_likelihood, loss), on tensor shapes.           *)
(* Python's None is the empty sequence and a present value x is <<x>>.     *)
(***************************************************************************)
EXTENDS Integers, Sequences, FiniteSets, TLC

\* ------------------------------------------------------------------ bounds
NCells == 2
MaxGroups == 2
\* the longest series of posterior probabilities
MaxGenes == 4
\* probabilities and thresholds are the decimal literals k / ProbScale
ProbScale == 5
\* Floating point: numpy's float64 has a 53-bit significand; the model rounds to
\* nearest-even in the same way with SignificandBits bits, on a grid of
\* 2^-FracBits.
SignificandBits == 5
FracBits == 11
\* the WVAE: particles, cells of a batch, genes, latent dimensions, and the
\* highest rank of a tensor handed to loss()
MaxParticles == 3
MaxBatchCells == 2
NInput == 3
NLatent == 2
MaxRank == 3
\* the batches a DistributionsConcatenator is fed
MaxBatches == 3
\* the TrainRunner calls made on one model, and the epochs one fit logs
MaxFits == 3
MaxEpochs == 2

\* ----------------------------------------------------------------- helpers
None == <<>>
Some(x) == <<x>>

RECURSIVE SumSeq(_)
SumSeq(s) == IF s = <<>> THEN 0 ELSE Head(s) + SumSeq(Tail(s))

SeqsUpTo(S, n) == UNION {[1..k -> S] : k \in 0..n}

VARIABLES
    obs,          \* adata.obs: column name -> column (cell -> value)
    colsBefore,   \* the columns of adata.obs when the last _de_core call began
    deKind,       \* the last _de_core call: "none", "group" or "mask"
    deIdx1,       \* its idx1 (None or a boolean mask, the set of selected cells)
    deIdx2,       \* its idx2
    deGroup1,     \* the first-group labels it iterated (None when it never got there)
    deGenes,      \* its col_names
    deOutcome,    \* "none", "returned" or "raised"
    deError,      \* what it raised
    deResult,     \* what the caller received: None or the concatenated table
    bfCalls,      \* calls of get_bayes_factors it made
    fdrProbas,    \* posterior_probas: [ndim, rows], a row is [label, value]
    fdrThr,       \* fdr, as the literal fdrThr / ProbScale
    fdrOut,       \* None, or what _fdr_de_prediction computed
    wvCfg,        \* the WVAE: [n_particles, use_observed_lib_size, loss_type]
    wvBatch,      \* the tensors of the current step: [cells, cont_covs]
    wvInf,        \* None, or the outputs of inference (tensors as shapes)
    wvGen,        \* None, or the outcome of generative
    wvLoss,       \* None, or the outcome of loss
    wvLik,        \* None, or the outcome of estimate_likelihood
    storage,      \* DistributionsConcatenator.storage: [order, items]
    concLog,      \* the forward_outputs given to add_distributions so far
    concGets,     \* calls of get_concatenated_distributions so far
    concOut,      \* None, or the outcome of the last get_concatenated_distributions
    tmodel,       \* the model a TrainRunner trains: its attributes
    trFits,       \* TrainRunner calls made on the model so far
    trCall        \* None, or the record of the TrainRunner call that just ended

deVars == <<obs, colsBefore, deKind, deIdx1, deIdx2, deGroup1, deGenes,
            deOutcome, deError, deResult, bfCalls>>

fdrVars == <<fdrProbas, fdrThr, fdrOut>>

wvVars == <<wvCfg, wvBatch, wvInf, wvGen, wvLoss, wvLik>>

concVars == <<storage, concLog, concGets, concOut>>

trVars == <<tmodel, trFits, trCall>>

vars == <<deVars, fdrVars, wvVars, concVars, trVars>>

\* ======================================================= _fdr_de_prediction
RECURSIVE Pow2(_)
Pow2(n) == IF n = 0 THEN 1 ELSE 2 * Pow2(n - 1)

\* 1.0 on the grid
One == Pow2(FracBits)

\* the largest power of two pw with pw * den <= num (num >= den > 0)
RECURSIVE Pow2Floor(_, _, _)
Pow2Floor(num, den, pw) ==
    IF 2 * pw * den <= num THEN Pow2Floor(num, den, 2 * pw) ELSE pw

\* The float nearest to num / den, ties to even: the quotient keeps
\* SignificandBits significant bits.
RoundNearestEven(num, den) ==
    IF num = 0 THEN 0
    ELSE LET pw == Pow2Floor(num, den, 1)
             half == Pow2(SignificandBits - 1)
             q == IF pw >= half THEN pw \div half ELSE 1
             m == num \div (den * q)
             rem == num - m * den * q
         IN  IF 2 * rem < den * q THEN m * q
             ELSE IF 2 * rem > den * q THEN (m + 1) * q
             ELSE IF m % 2 = 0 THEN m * q ELSE (m + 1) * q

\* the float of the literal k / ProbScale
Float(k) == RoundNearestEven(k * One, ProbScale)

\* posterior_probas.sort_values(ascending=False): numpy's quicksort is not
\* stable, so equal probabilities come in any order. perm[k] is the position in
\* posterior_probas of the row at rank k.
SortedPerms(rows) ==
    {perm \in Permutations(1..Len(rows)) :
        \A i, j \in 1..Len(rows) : i < j => rows[perm[i]].value >= rows[perm[j]].value}

\* (1.0 - sorted_pgs).cumsum() at rank k, each addition rounded
RECURSIVE CumSum(_, _)
CumSum(sorted, k) ==
    IF k = 0 THEN 0
    ELSE RoundNearestEven(CumSum(sorted, k - 1)
                          + RoundNearestEven(One - Float(sorted[k].value), 1), 1)

\* cumulative_fdr at rank k: the running sum over 1.0 + arange
CumulativeFdr(sorted, k) == RoundNearestEven(CumSum(sorted, k), k)

\* series.loc[keys]: for every key, in order, every row of the series that
\* carries that label, in the order of the series
RECURSIVE Loc(_, _)
Loc(series, keys) ==
    IF keys = <<>> THEN <<>>
    ELSE SelectSeq(series, LAMBDA r : r.label = Head(keys)) \o Loc(series, Tail(keys))

\* the number of rows .loc[index] returns from a series with that same index
LocLen(labels) ==
    LET series == [i \in 1..Len(labels) |-> [label |-> labels[i]]]
    IN  Len(Loc(series, labels))

\* _fdr_de_prediction(posterior_probas, fdr), the sort having produced perm
FdrDePrediction(probas, fdr, perm) ==
    IF probas.ndim # 1
    THEN [raised |-> TRUE, perm |-> <<>>, cumulative_fdr |-> <<>>, d |-> 0,
          sorted_flags |-> <<>>, index |-> <<>>, flags |-> <<>>]
    ELSE
    LET rows == probas.rows
        n == Len(rows)
        sorted_pgs == [k \in 1..n |-> rows[perm[k]]]
        cumulative_fdr == [k \in 1..n |-> CumulativeFdr(sorted_pgs, k)]
        d == Cardinality({k \in 1..n : cumulative_fdr[k] <= Float(fdr)})
        is_pred_de == [k \in 1..n |-> [label |-> sorted_pgs[k].label, value |-> k <= d]]
        out == Loc(is_pred_de, [i \in 1..n |-> rows[i].label])
    IN  [raised |-> FALSE, perm |-> perm, cumulative_fdr |-> cumulative_fdr, d |-> d,
         sorted_flags |-> [k \in 1..n |-> is_pred_de[k].value],
         index |-> [i \in 1..Len(out) |-> out[i].label],
         flags |-> [i \in 1..Len(out) |-> out[i].value]]

\* The index of a series of n genes: n distinct labels, or the last gene named
\* like the first.
GeneIndexes(n) ==
    {[i \in 1..n |-> i]} \cup (IF n >= 2 THEN {[i \in 1..n |-> IF i = n THEN 1 ELSE i]} ELSE {})

\* The posterior_probas of n genes: a series, or the one 2-D frame.
FdrInputs(n) ==
    IF n = 0 THEN {[ndim |-> 2, rows |-> <<>>], [ndim |-> 1, rows |-> <<>>]}
    ELSE {[ndim |-> 1, rows |-> [i \in 1..n |-> [label |-> idx[i], value |-> v[i]]]] :
             idx \in GeneIndexes(n), v \in [1..n -> 0..ProbScale]}

FdrInit ==
    /\ \E n \in 0..MaxGenes : fdrProbas \in FdrInputs(n)
    /\ fdrThr \in 0..ProbScale
    /\ fdrOut = None

FdrIdle ==
    /\ fdrProbas = [ndim |-> 1, rows |-> <<>>]
    /\ fdrThr = 0
    /\ fdrOut = None

\* _fdr_de_prediction(posterior_probas, fdr)
FdrPredict ==
    /\ fdrOut = None
    /\ \E perm \in SortedPerms(fdrProbas.rows) :
         fdrOut' = Some(FdrDePrediction(fdrProbas, fdrThr, perm))
    /\ UNCHANGED <<fdrProbas, fdrThr>>

\* ======================================================================= WVAE
\* A tensor is its shape, a sequence of sizes; a Python float is <<>>.
DropLast(shape) == SubSeq(shape, 1, Len(shape) - 1)

\* the size of s at position i counted from the right, 1 where s is shorter
DimFromRight(s, i) == IF i <= Len(s) THEN s[Len(s) + 1 - i] ELSE 1

MaxOf(a, b) == IF a >= b THEN a ELSE b

\* torch's broadcasting of two shapes
BroadcastOk(s1, s2) ==
    \A i \in 1..MaxOf(Len(s1), Len(s2)) :
        \/ DimFromRight(s1, i) = DimFromRight(s2, i)
        \/ DimFromRight(s1, i) = 1
        \/ DimFromRight(s2, i) = 1

Broadcast(s1, s2) ==
    LET n == MaxOf(Len(s1), Len(s2))
    IN  [i \in 1..n |-> MaxOf(DimFromRight(s1, n + 1 - i), DimFromRight(s2, n + 1 - i))]

\* torch.cat([a, b], dim=-1): the same rank and the same sizes but for the last
CatLastOk(a, b) == Len(a) = Len(b) /\ Len(a) >= 1 /\ DropLast(a) = DropLast(b)
CatLast(a, b) == Append(DropLast(a), a[Len(a)] + b[Len(b)])

\* n_samples_ that keeps a particle dimension of size 1
NSamplesKept(cfg, n_samples) ==
    IF n_samples = None THEN <<cfg.n_particles>> ELSE <<n_samples[1]>>

\* n_samples_ of inference (lines 94-95): the sample shape, empty for one particle
NSamples(cfg, n_samples) ==
    LET P == IF n_samples = None THEN cfg.n_particles ELSE n_samples[1]
    IN  IF P = 1 THEN <<>> ELSE <<P>>

\* the batch shape of the distribution an encoder returns: one row per cell
EncoderShape(cells, n_out) == <<cells, n_out>>

\* inference whose log_qz is not summed over the latent dimensions
InferenceUnsummed(cfg, batch, n_samples) ==
    LET n_samples_ == NSamples(cfg, n_samples)
        x == <<batch.cells, NInput>>
        qz == EncoderShape(batch.cells, NLatent)
        ql == EncoderShape(batch.cells, 1)
        untran_z == n_samples_ \o qz
        log_qz == untran_z
        library == IF cfg.use_observed_lib_size
                   THEN Append(DropLast(x), 1)
                   ELSE n_samples_ \o ql
        log_ql == IF cfg.use_observed_lib_size THEN <<>> ELSE library
    IN  [z |-> untran_z, library |-> library, log_ql |-> log_ql, log_qz |-> log_qz,
         log_qjoint |-> Broadcast(log_ql, log_qz),
         point_library |-> IF cfg.use_observed_lib_size THEN library ELSE ql,
         n_samples_ |-> n_samples_]

\* WVAE.inference
Inference(cfg, batch, n_samples) ==
    LET n_samples_ == NSamples(cfg, n_samples)
        x == <<batch.cells, NInput>>
        qz == EncoderShape(batch.cells, NLatent)
        ql == EncoderShape(batch.cells, 1)
        untran_z == n_samples_ \o qz
        log_qz == DropLast(untran_z)
        library == IF cfg.use_observed_lib_size
                   THEN Append(DropLast(x), 1)
                   ELSE n_samples_ \o ql
        log_ql == IF cfg.use_observed_lib_size THEN <<>> ELSE DropLast(library)
    IN  [z |-> untran_z, library |-> library, log_ql |-> log_ql, log_qz |-> log_qz,
         log_qjoint |-> Broadcast(log_ql, log_qz),
         point_library |-> IF cfg.use_observed_lib_size THEN library ELSE ql,
         n_samples_ |-> n_samples_]

\* The decoder's px_rate is exp(library) * px_scale, px_scale having one row of
\* NInput genes per row of the decoder input.
DecoderRateOk(decoder_input, library) ==
    BroadcastOk(library, Append(DropLast(decoder_input), NInput))
DecoderRate(decoder_input, library) ==
    Broadcast(library, Append(DropLast(decoder_input), NInput))

\* get_reconstruction_loss(x, px_rate, ...): minus the log-probability of x
\* summed over the genes
ReconstructionLossOk(x, px_rate) == BroadcastOk(x, px_rate)
ReconstructionLoss(x, px_rate) == DropLast(Broadcast(x, px_rate))

\* _compute_local_library_params(batch_index): one mean and variance per cell
LocalLibraryParams(cells) == <<cells, 1>>

\* the keys of the dictionary generative returns (lines 205-214)
GenerativeKeys == {"px_scale", "px_r", "px_rate", "px_dropout", "log_pl",
                   "log_px_latents", "log_pz", "log_pjoint"}

GenerativeRaised(err) ==
    [raised |-> TRUE, error |-> err, keys |-> {}, log_pl |-> <<>>, log_pz |-> <<>>,
     log_px_latents |-> <<>>, log_pjoint |-> <<>>, px_rate |-> <<>>]

\* WVAE.generative on z and library, for the batch's x and covariates
Generative(cfg, batch, z, library) ==
    LET x == <<batch.cells, NInput>>
        cont_covs_ == <<z[1], batch.cells, 1>>
        catOk == ~batch.cont_covs \/ CatLastOk(z, cont_covs_)
        decoder_input == IF batch.cont_covs THEN CatLast(z, cont_covs_) ELSE z
        px_rate == DecoderRate(decoder_input, library)
        log_pz == DropLast(z)
        local == LocalLibraryParams(batch.cells)
        plOk == cfg.use_observed_lib_size \/ BroadcastOk(local, library)
        log_pl == IF cfg.use_observed_lib_size THEN <<>>
                  ELSE DropLast(Broadcast(local, library))
        log_px_latents == ReconstructionLoss(x, px_rate)
    IN  IF ~catOk THEN GenerativeRaised("RuntimeError: cat")
        ELSE IF ~DecoderRateOk(decoder_input, library)
        THEN GenerativeRaised("RuntimeError: decoder")
        ELSE IF ~plOk THEN GenerativeRaised("RuntimeError: log_pl")
        ELSE IF ~ReconstructionLossOk(x, px_rate)
        THEN GenerativeRaised("RuntimeError: reconstruction")
        ELSE IF ~(BroadcastOk(log_px_latents, log_pz)
                  /\ BroadcastOk(Broadcast(log_px_latents, log_pz), log_pl))
        THEN GenerativeRaised("RuntimeError: log_pjoint")
        ELSE [raised |-> FALSE, error |-> "", keys |-> GenerativeKeys,
              log_pl |-> log_pl, log_pz |-> log_pz, log_px_latents |-> log_px_latents,
              log_pjoint |-> Broadcast(Broadcast(log_px_latents, log_pz), log_pl),
              px_rate |-> px_rate]

\* VAE._get_generative_input plus the x that WVAE adds (lines 73-77): z and
\* library are taken from the inference outputs
GetGenerativeInput(batch, inference_outputs) ==
    [z |-> inference_outputs.z, library |-> inference_outputs.library, batch |-> batch]

\* WVAE.estimate_likelihood
EstimateLikelihood(cfg, batch, inference_outputs) ==
    LET gen_ins == GetGenerativeInput(batch, inference_outputs)
        gen == Generative(cfg, gen_ins.batch, gen_ins.z, gen_ins.library)
    IN  IF gen.raised THEN [outcome |-> "raised", error |-> gen.error, generative |-> FALSE]
        ELSE IF "px" \notin gen.keys
        THEN [outcome |-> "raised", error |-> "KeyError: px", generative |-> TRUE]
        ELSE [outcome |-> "returned", error |-> "", generative |-> TRUE]

\* loss() with the loss type looked at before the rank of log_ratios
LossTypeFirst(cfg, log_pjoint, log_qjoint) ==
    LET ok == BroadcastOk(log_pjoint, log_qjoint)
        log_ratios == IF ok THEN Broadcast(log_pjoint, log_qjoint) ELSE <<>>
        r == [log_pjoint |-> log_pjoint, log_qjoint |-> log_qjoint,
              subtracted |-> ok, log_ratios |-> log_ratios]
    IN  IF ~ok THEN r @@ [outcome |-> "RuntimeError"]
        ELSE IF cfg.loss_type \notin {"ELBO", "IWELBO"} THEN r @@ [outcome |-> "ValueError"]
        ELSE IF Len(log_ratios) # 2 THEN r @@ [outcome |-> "AssertionError"]
        ELSE r @@ [outcome |-> "returned"]

\* WVAE.loss on the two log-joints of its dictionaries
Loss(cfg, log_pjoint, log_qjoint) ==
    LET ok == BroadcastOk(log_pjoint, log_qjoint)
        log_ratios == IF ok THEN Broadcast(log_pjoint, log_qjoint) ELSE <<>>
        r == [log_pjoint |-> log_pjoint, log_qjoint |-> log_qjoint,
              subtracted |-> ok, log_ratios |-> log_ratios]
    IN  IF ~ok THEN r @@ [outcome |-> "RuntimeError"]
        ELSE IF Len(log_ratios) # 2 THEN r @@ [outcome |-> "AssertionError"]
        ELSE IF cfg.loss_type \notin {"ELBO", "IWELBO"} THEN r @@ [outcome |-> "ValueError"]
        ELSE r @@ [outcome |-> "returned"]

Batches == [cells : 1..MaxBatchCells, cont_covs : BOOLEAN]
Shapes == SeqsUpTo(1..2, MaxRank)
LatentShapes(cells, last) ==
    {<<cells, last>>} \cup {<<P, cells, last>> : P \in 1..MaxParticles}

WvInit ==
    /\ wvCfg \in [n_particles : 1..MaxParticles, use_observed_lib_size : BOOLEAN,
                   loss_type : {"IWELBO", "ELBO", "MSE"}]
    /\ wvBatch = None
    /\ wvInf = None
    /\ wvGen = None
    /\ wvLoss = None
    /\ wvLik = None

WvIdle ==
    /\ wvCfg = [n_particles |-> 1, use_observed_lib_size |-> FALSE, loss_type |-> "IWELBO"]
    /\ wvBatch = None
    /\ wvInf = None
    /\ wvGen = None
    /\ wvLoss = None
    /\ wvLik = None

WvFresh == wvInf = None /\ wvGen = None /\ wvLoss = None /\ wvLik = None

\* inference on a batch, n_samples given or not
WvInference ==
    /\ WvFresh
    /\ \E batch \in Batches, n_samples \in {None} \cup {Some(P) : P \in 1..MaxParticles} :
         /\ wvBatch' = Some(batch)
         /\ wvInf' = Some(Inference(wvCfg, batch, n_samples))
    /\ UNCHANGED <<wvCfg, wvGen, wvLoss, wvLik>>

\* generative on the outputs of inference
WvGenerative ==
    /\ wvInf # None /\ wvGen = None
    /\ wvGen' = Some(Generative(wvCfg, wvBatch[1], wvInf[1].z, wvInf[1].library))
    /\ UNCHANGED <<wvCfg, wvBatch, wvInf, wvLoss, wvLik>>

\* loss on the outputs of inference and generative
WvLoss ==
    /\ wvGen # None /\ ~wvGen[1].raised /\ wvLoss = None
    /\ wvLoss' = Some(Loss(wvCfg, wvGen[1].log_pjoint, wvInf[1].log_qjoint))
    /\ UNCHANGED <<wvCfg, wvBatch, wvInf, wvGen, wvLik>>

\* loss on dictionaries of the caller's own
WvLossOn ==
    /\ WvFresh
    /\ \E pj \in Shapes, qj \in Shapes : wvLoss' = Some(Loss(wvCfg, pj, qj))
    /\ UNCHANGED <<wvCfg, wvBatch, wvInf, wvGen, wvLik>>

\* estimate_likelihood on a batch and a dictionary holding z and library
WvEstimateLikelihood ==
    /\ WvFresh
    /\ \E batch \in Batches :
         \E z \in LatentShapes(batch.cells, NLatent), l \in LatentShapes(batch.cells, 1) :
            /\ wvBatch' = Some(batch)
            /\ wvLik' = Some(EstimateLikelihood(wvCfg, batch, [z |-> z, library |-> l])
                              @@ [z |-> z, library |-> l])
    /\ UNCHANGED <<wvCfg, wvInf, wvGen, wvLoss>>

\* the step is over: its dictionaries are dropped
WvDone ==
    /\ ~WvFresh
    /\ wvBatch' = None /\ wvInf' = None /\ wvGen' = None /\ wvLoss' = None /\ wvLik' = None
    /\ UNCHANGED wvCfg

\* ================================================ DistributionsConcatenator
\* A parameter tensor is [shape, src]: src lists, along the axis of
\* concatenation, the batches its slices came from. A dictionary is [order,
\* items]: its keys in insertion order and the value of each.

\* arg_constraints.keys() of a distribution class
ArgConstraints(cls) == IF cls = "Normal" THEN <<"loc", "scale">> ELSE <<"rate">>

\* self.storage = {}
EmptyStorage == [order |-> <<>>, items |-> <<>>]

\* One item of the loop of add_distributions (lines 55-70): dist is None for a
\* value that is no Distribution, else [cls, shape] with tag the batch's number.
AddOne(st, key, dist, tag) ==
    IF dist = None THEN st
    ELSE LET isNew == key \notin DOMAIN st.items
             entry == IF isNew
                      THEN [cls |-> Some(dist[1].cls),
                            params |-> [i \in 1..Len(ArgConstraints(dist[1].cls)) |-> <<>>]]
                      ELSE st.items[key]
             added == [entry EXCEPT !.params =
                         [i \in DOMAIN entry.params |->
                            Append(entry.params[i], [shape |-> dist[1].shape, src |-> <<tag>>])]]
         IN  [order |-> IF isNew THEN Append(st.order, key) ELSE st.order,
              items |-> [k \in DOMAIN st.items \cup {key} |->
                           IF k = key THEN added ELSE st.items[k]]]

\* add_distributions(forward_outputs): forward_outputs is a sequence of
\* [key, dist] in the dictionary's order
RECURSIVE AddDistributions(_, _, _)
AddDistributions(st, forward_outputs, tag) ==
    IF forward_outputs = <<>> THEN st
    ELSE AddDistributions(AddOne(st, Head(forward_outputs).key, Head(forward_outputs).dist, tag),
                          Tail(forward_outputs), tag)

\* _find_concat_dim that concatenates along axis 0 whatever the rank
FindConcatDimAxis0(my_list) ==
    LET ndims == Len(my_list[1].shape)
    IN  IF ndims = 2 THEN 0 ELSE IF ndims = 3 THEN 0 ELSE -1

\* _find_concat_dim: -1 stands for its ValueError
FindConcatDim(my_list) ==
    LET ndims == Len(my_list[1].shape)
    IN  IF ndims = 2 THEN 0 ELSE IF ndims = 3 THEN 1 ELSE -1

\* torch.cat(value, dim): every tensor has the rank and, but along dim, the
\* sizes of the first
CatOk(value, dim) ==
    \A t \in 1..Len(value) :
        /\ Len(value[t].shape) = Len(value[1].shape)
        /\ \A i \in 1..Len(value[1].shape) :
              i # dim + 1 => value[t].shape[i] = value[1].shape[i]

RECURSIVE CatSrc(_)
CatSrc(value) == IF value = <<>> THEN <<>> ELSE Head(value).src \o CatSrc(Tail(value))

Cat(value, dim) ==
    [shape |-> [i \in 1..Len(value[1].shape) |->
                  IF i = dim + 1
                  THEN SumSeq([t \in 1..Len(value) |-> value[t].shape[i]])
                  ELSE value[1].shape[i]],
     src |-> CatSrc(value)]

\* dist_props.pop("cls")
PopCls(st, name) == [st EXCEPT !.items[name].cls = None]

\* The loop of get_concatenated_distributions from the k-th name of storage
\* on; dists holds the distributions built so far.
RECURSIVE GetLoop(_, _, _)
GetLoop(k, st, dists) ==
    IF k > Len(st.order)
    THEN [outcome |-> "returned", error |-> "", storage |-> st, dists |-> dists]
    ELSE LET dist_name == st.order[k]
             dist_props == st.items[dist_name]
             popped == PopCls(st, dist_name)
             params == dist_props.params
             badRank == \E i \in DOMAIN params : FindConcatDim(params[i]) = -1
             badCat == \E i \in DOMAIN params : ~CatOk(params[i], FindConcatDim(params[i]))
         IN  IF dist_props.cls = None
             THEN [outcome |-> "raised", error |-> "KeyError: cls", storage |-> st,
                   dists |-> <<>>]
             ELSE IF badRank
             THEN [outcome |-> "raised", error |-> "ValueError", storage |-> popped,
                   dists |-> <<>>]
             ELSE IF badCat
             THEN [outcome |-> "raised", error |-> "RuntimeError: cat", storage |-> popped,
                   dists |-> <<>>]
             ELSE GetLoop(k + 1, popped,
                          [n \in DOMAIN dists \cup {dist_name} |->
                             IF n = dist_name
                             THEN [cls |-> dist_props.cls[1],
                                   params |-> [i \in DOMAIN params |->
                                                 Cat(params[i], FindConcatDim(params[i]))]]
                             ELSE dists[n]])

\* get_concatenated_distributions()
GetConcatenatedDistributions(st) == GetLoop(1, st, <<>>)

\* The parameter shapes one forward pass gives its distributions: no cell axis,
\* (cells, latent) or (particles, cells, latent).
ForwardShapes ==
    {<<NLatent>>}
    \cup {<<c, NLatent>> : c \in 1..MaxBatchCells}
    \cup {<<MaxParticles, c, NLatent>> : c \in 1..MaxBatchCells}

\* The dictionaries of one forward pass: z is a tensor, qz a Normal, px a Poisson.
ForwardOutputs ==
    {<<[key |-> "z", dist |-> None]>> \o fo :
        fo \in UNION {{<<[key |-> "qz", dist |-> Some([cls |-> "Normal", shape |-> sh])]>>,
                        <<[key |-> "px", dist |-> Some([cls |-> "Poisson", shape |-> sh])]>>,
                        <<[key |-> "qz", dist |-> Some([cls |-> "Normal", shape |-> sh])],
                          [key |-> "px", dist |-> Some([cls |-> "Poisson", shape |-> sh])]>>} :
                       sh \in ForwardShapes}}

ConcInit ==
    /\ storage = EmptyStorage
    /\ concLog = <<>>
    /\ concGets = 0
    /\ concOut = None

\* concatenator.add_distributions(forward_outputs)
ConcAdd ==
    /\ concOut = None
    /\ Len(concLog) < MaxBatches
    /\ \E fo \in ForwardOutputs :
         /\ storage' = AddDistributions(storage, fo, Len(concLog) + 1)
         /\ concLog' = Append(concLog, fo)
    /\ UNCHANGED <<concGets, concOut>>

\* concatenator.get_concatenated_distributions()
ConcGet ==
    /\ concOut = None
    /\ concGets < 2
    /\ LET r == GetConcatenatedDistributions(storage)
       IN  /\ storage' = r.storage
           /\ concOut' = Some([outcome |-> r.outcome, error |-> r.error, dists |-> r.dists])
    /\ concGets' = concGets + 1
    /\ UNCHANGED concLog

\* the caller takes the distributions or the exception
ConcReturn ==
    /\ concOut # None
    /\ concOut' = None
    /\ UNCHANGED <<storage, concLog, concGets>>

\* ============================================================== TrainRunner
\* A history is a dictionary from metric names to frames; a frame is the
\* sequence of its rows, a row [index, fit, epoch] carrying its index label and
\* the fit and epoch that logged it.
Metrics == {"elbo_train", "elbo_validation"}
Devices == {"cpu", "cuda:0"}

\* trainer.logger.history after a fit that ran n epochs and logged the metrics ms
LoggerHistory(fit, ms, n) ==
    [m \in ms |-> [k \in 1..n |-> [index |-> k - 1, fit |-> fit, epoch |-> k]]]

\* np.arange that starts again from 0
RestartedIndex(prev_len, new_len) == [k \in 1..new_len |-> k - 1]

\* np.arange(prev_len, prev_len + new_len)
ContinuedIndex(prev_len, new_len) == [k \in 1..new_len |-> prev_len + k - 1]

\* lines 151-160 for one key: the new frame re-indexed and put after val
MergeFrames(val, new) ==
    LET index == ContinuedIndex(Len(val), Len(new))
    IN  val \o [k \in 1..Len(new) |-> [new[k] EXCEPT !.index = index[k]]]

\* TrainRunner._update_history on the model m: logger is [has_history, history]
UpdateHistory(m, logger) ==
    LET same == [model |-> m, warned |-> FALSE, raised |-> FALSE, runner_history_ |-> FALSE]
    IN  IF m.is_trained_
        THEN IF m.history_ = None
             THEN [same EXCEPT !.warned = TRUE]
             ELSE IF ~logger.has_history
             THEN [same EXCEPT !.raised = TRUE]
             ELSE LET old == m.history_[1]
                      new_history == logger.history
                      merged == [key \in DOMAIN old |->
                                   IF key \notin DOMAIN new_history THEN old[key]
                                   ELSE MergeFrames(old[key], new_history[key])]
                  IN  [same EXCEPT !.model.history_ = Some(merged)]
        ELSE IF logger.has_history
             THEN [same EXCEPT !.model.history_ = Some(logger.history)]
             ELSE [same EXCEPT !.runner_history_ = TRUE]

\* BaseModelClass after __init__
NewModel ==
    [is_trained_ |-> FALSE, history_ |-> None,
     train_indices |-> None, validation_indices |-> None, test_indices |-> None,
     training |-> TRUE, device |-> "cpu", trainer |-> None]

\* The call record of a TrainRunner call on the model prev by the runner r; the
\* training plan is told the data splitter's n_train and n_val (lines 117-120).
CallRecord(prev, r, outcome, error, warned, events) ==
    [prev |-> prev, runner |-> r, outcome |-> outcome, error |-> error,
     warned |-> warned, events |-> events,
     training_plan |-> [n_obs_training |-> Len(r.split.train_idx),
                        n_obs_validation |-> Len(r.split.val_idx)]]

\* TrainRunner.__call__ that marks the model trained before updating the history
RunnerCallFlagFirst(m, r) ==
    LET fitted == [m EXCEPT !.training = TRUE, !.is_trained_ = TRUE]
        upd == UpdateHistory(fitted, r.logger)
        done == [upd.model EXCEPT !.train_indices = Some(r.split.train_idx),
                                  !.test_indices = Some(r.split.test_idx),
                                  !.validation_indices = Some(r.split.val_idx),
                                  !.training = FALSE,
                                  !.device = r.device,
                                  !.trainer = Some(r.id)]
    IN  IF r.fit_raises
        THEN [model |-> [m EXCEPT !.training = TRUE],
              call |-> CallRecord(m, r, "raised", "fit", FALSE, <<"fit">>)]
        ELSE IF upd.raised
        THEN [model |-> fitted,
              call |-> CallRecord(m, r, "raised", "AttributeError: history", FALSE,
                                  <<"is_trained_", "fit", "_update_history">>)]
        ELSE [model |-> done,
              call |-> CallRecord(m, r, "returned", "", upd.warned,
                                  <<"is_trained_", "fit", "_update_history", "indices",
                                    "eval", "to_device", "trainer">>)]

\* TrainRunner.__call__ on the model m: the runner r is [id, device, logger,
\* split, fit_raises], split the indices the data splitter holds after the fit.
\* trainer.fit leaves the module in training mode.
RunnerCall(m, r) ==
    LET fitted == [m EXCEPT !.training = TRUE]
        upd == UpdateHistory(fitted, r.logger)
        done == [upd.model EXCEPT !.train_indices = Some(r.split.train_idx),
                                  !.test_indices = Some(r.split.test_idx),
                                  !.validation_indices = Some(r.split.val_idx),
                                  !.training = FALSE,
                                  !.is_trained_ = TRUE,
                                  !.device = r.device,
                                  !.trainer = Some(r.id)]
    IN  IF r.fit_raises
        THEN [model |-> fitted,
              call |-> CallRecord(m, r, "raised", "fit", FALSE, <<"fit">>)]
        ELSE IF upd.raised
        THEN [model |-> fitted,
              call |-> CallRecord(m, r, "raised", "AttributeError: history", FALSE,
                                  <<"fit", "_update_history">>)]
        ELSE [model |-> done,
              call |-> CallRecord(m, r, "returned", "", upd.warned,
                                  <<"fit", "_update_history", "indices", "eval",
                                    "is_trained_", "to_device", "trainer">>)]

\* the loggers of a trainer: the default one with its history, one without
Loggers(fit) ==
    {[has_history |-> FALSE, history |-> <<>>]}
    \cup {[has_history |-> TRUE, history |-> LoggerHistory(fit, ms, n)] :
             ms \in SUBSET Metrics, n \in 1..MaxEpochs}

\* what a data splitter holds after fit: the cells it drew for validation
Splits ==
    {[train_idx |-> <<1, 2, 3>>, val_idx |-> <<>>, test_idx |-> <<>>],
     [train_idx |-> <<3, 1>>, val_idx |-> <<2>>, test_idx |-> <<>>]}

Runners(fit) ==
    {[id |-> fit, device |-> d, logger |-> lg, split |-> sp, fit_raises |-> FALSE] :
        d \in Devices, lg \in Loggers(fit), sp \in Splits}
    \cup {[id |-> fit, device |-> "cpu", logger |-> [has_history |-> FALSE, history |-> <<>>],
            split |-> CHOOSE sp \in Splits : sp.val_idx = <<>>, fit_raises |-> TRUE]}

TrInit ==
    /\ tmodel = NewModel
    /\ trFits = 0
    /\ trCall = None

\* a TrainRunner built on the model and called
TrCall ==
    /\ trCall = None
    /\ trFits < MaxFits
    /\ \E r \in Runners(trFits + 1) :
         LET res == RunnerCall(tmodel, r)
         IN  /\ tmodel' = res.model
             /\ trCall' = Some(res.call)
    /\ trFits' = trFits + 1

\* the caller goes on after the call
TrReturn ==
    /\ trCall # None
    /\ trCall' = None
    /\ UNCHANGED <<tmodel, trFits>>

\* ===================================================== differential expression
Cells == 1..NCells
Labels == {"a", "b"}
\* the order pandas gives the categories of the label column
LabelOrder == <<"a", "b">>
temp_key == "_scvi_temp_de"
groupby_key == "labels"

\* The label column of an AnnData of NCells cells: the first k cells "a", the rest "b".
LabelColumns == {[c \in Cells |-> IF c <= k THEN "a" ELSE "b"] : k \in 0..NCells}

\* ravel_idx of a boolean mask, and obs_col[idx].shape[0]: the cells it selects
MaskSize(idx) == Cardinality(idx)

\* _prepare_obs with the size check on the labelled populations instead of the masks
PrepareObsByLabel(idx1, idx2) ==
    LET col1 == [c \in Cells |-> IF c \in idx1 THEN "one" ELSE "None"]
        obs_col == IF idx2 = None THEN col1
                   ELSE [c \in Cells |-> IF c \in idx2[1] THEN "two" ELSE col1[c]]
        n1 == Cardinality({c \in Cells : obs_col[c] = "one"})
        n2 == IF idx2 = None THEN 1 ELSE Cardinality({c \in Cells : obs_col[c] = "two"})
    IN  [raised |-> (n1 = 0) \/ (n2 = 0), obs_col |-> obs_col,
         group1 |-> <<"one">>, group2 |-> IF idx2 = None THEN None ELSE Some("two")]

\* _prepare_obs: idx1 is a mask, idx2 None or a mask. obs_col[None] has shape
\* (1, n), so a missing idx2 never counts as empty.
PrepareObs(idx1, idx2) ==
    LET col1 == [c \in Cells |-> IF c \in idx1 THEN "one" ELSE "None"]
        obs_col == IF idx2 = None THEN col1
                   ELSE [c \in Cells |-> IF c \in idx2[1] THEN "two" ELSE col1[c]]
        n1 == MaskSize(idx1)
        n2 == IF idx2 = None THEN 1 ELSE MaskSize(idx2[1])
    IN  [raised |-> (n1 = 0) \/ (n2 = 0), obs_col |-> obs_col,
         group1 |-> <<"one">>, group2 |-> IF idx2 = None THEN None ELSE Some("two")]

\* adata.obs[groupby].astype("category").cat.categories.tolist()
Categories(col) == SelectSeq(LabelOrder, LAMBDA l : \E c \in Cells : col[c] = l)

\* (adata.obs[groupby] == g).to_numpy().ravel()
CellIdx(o, groupby, g) == {c \in Cells : o[groupby][c] = g}

\* One per-group table of the loop of _de_core (lines 313-344): its rows, its
\* columns and the two populations it compares.
DeBlock(o, groupby, g1, group2, maskBased, mode, all_stats, col_names) ==
    LET c1 == CellIdx(o, groupby, g1)
        c2 == IF group2 = None THEN Cells \ c1 ELSE CellIdx(o, groupby, group2[1])
    IN  [g1 |-> g1, cells1 |-> c1, cells2 |-> c2, rows |-> Len(col_names),
         columns |-> {IF mode = "change" THEN "proba_de" ELSE "bayes_factor"}
                     \cup (IF all_stats THEN {"stats"} ELSE {})
                     \cup (IF mode = "change" THEN {"is_de_fdr"} ELSE {})
                     \cup (IF maskBased THEN {} ELSE {"comparison", "group1", "group2"})]

\* The loop over group1 from its k-th label on. fail names the call of a
\* collaborator that raises: [at |-> k, stage |-> "bf" | "stats"] (at = 0: none).
\* Assigning the FDR flags raises when .loc returned more rows than the table has.
RECURSIVE DeLoop(_, _, _, _)
DeLoop(k, ctx, df_results, calls) ==
    IF k > Len(ctx.group1)
    THEN [raised |-> FALSE, error |-> "", df_results |-> df_results, calls |-> calls]
    ELSE IF ctx.fail.at = k /\ ctx.fail.stage = "bf"
    THEN [raised |-> TRUE, error |-> "get_bayes_factors", df_results |-> df_results,
          calls |-> calls + 1]
    ELSE IF ctx.all_stats /\ ctx.fail.at = k /\ ctx.fail.stage = "stats"
    THEN [raised |-> TRUE, error |-> "all_stats_fn", df_results |-> df_results,
          calls |-> calls + 1]
    ELSE IF ctx.mode = "change" /\ LocLen(ctx.col_names) # Len(ctx.col_names)
    THEN [raised |-> TRUE, error |-> "ValueError: fdr flags", df_results |-> df_results,
          calls |-> calls + 1]
    ELSE DeLoop(k + 1, ctx,
                Append(df_results,
                       DeBlock(ctx.obs, ctx.groupby, ctx.group1[k], ctx.group2,
                               ctx.maskBased, ctx.mode, ctx.all_stats, ctx.col_names)),
                calls + 1)

\* pd.concat with the blocks in reverse order
ConcatReversed(df_results) ==
    [i \in 1..Len(df_results) |-> df_results[Len(df_results) + 1 - i]]

\* pd.concat(df_results, axis=0): the blocks in the order they were appended
Concat(df_results) == df_results

\* _de_core. a: [group1, group2, idx1, idx2, mode, all_stats, col_names];
\* group1 is [kind |-> "none" | "str" | "list", val |-> labels].
DeCore(o, a, fail) ==
    LET auto == a.group1.kind = "none" /\ a.idx1 = None
        cats == Categories(o[groupby_key])
        g1list == IF auto THEN cats ELSE a.group1.val
        maskBased == a.idx1 # None
        prep == PrepareObs(a.idx1[1], a.idx2)
        o1 == IF maskBased
              THEN [c \in DOMAIN o \cup {temp_key} |->
                      IF c = temp_key THEN prep.obs_col ELSE o[c]]
              ELSE o
        ctx == [obs |-> o1,
                groupby |-> IF maskBased THEN temp_key ELSE groupby_key,
                group1 |-> IF maskBased THEN prep.group1 ELSE g1list,
                group2 |-> IF maskBased THEN prep.group2 ELSE a.group2,
                maskBased |-> maskBased, mode |-> a.mode, all_stats |-> a.all_stats,
                col_names |-> a.col_names, fail |-> fail]
        loop == DeLoop(1, ctx, <<>>, 0)
        o2 == IF maskBased THEN [c \in DOMAIN o1 \ {temp_key} |-> o1[c]] ELSE o1
    IN  IF auto /\ Len(cats) = 1
        THEN [outcome |-> "raised", error |-> "ValueError: single group", obs |-> o,
              result |-> None, group1 |-> None, calls |-> 0]
        ELSE IF maskBased /\ prep.raised
        THEN [outcome |-> "raised", error |-> "ValueError: size zero", obs |-> o,
              result |-> None, group1 |-> None, calls |-> 0]
        ELSE IF loop.raised
        THEN [outcome |-> "raised", error |-> loop.error, obs |-> o1,
              result |-> None, group1 |-> Some(ctx.group1),
              calls |-> loop.calls]
        ELSE IF loop.df_results = <<>>
        THEN [outcome |-> "raised", error |-> "ValueError: concat", obs |-> o2,
              result |-> None, group1 |-> Some(ctx.group1), calls |-> loop.calls]
        ELSE [outcome |-> "returned", error |-> "", obs |-> o2,
              result |-> Some(Concat(loop.df_results)), group1 |-> Some(ctx.group1),
              calls |-> loop.calls]

Group1Args ==
    {[kind |-> "none", val |-> <<>>]}
    \cup {[kind |-> "str", val |-> <<l>>] : l \in Labels}
    \cup {[kind |-> "list", val |-> s] : s \in SeqsUpTo(Labels, MaxGroups)}

\* Which collaborator call raises, with the all_stats flag of the call: stage
\* "bf" is get_bayes_factors and "stats" is all_stats_fn, at the at-th group
\* (at = 0: none raises). all_stats_fn is only called when all_stats is True.
Fails == {[all_stats |-> s, at |-> 0, stage |-> "none"] : s \in BOOLEAN}
         \cup {[all_stats |-> s, at |-> k, stage |-> "bf"] :
                  s \in BOOLEAN, k \in 1..MaxGroups}
         \cup {[all_stats |-> TRUE, at |-> k, stage |-> "stats"] : k \in 1..MaxGroups}

\* mode and col_names of a call: gene names are unique or not
Modes == {[mode |-> "vanilla", col_names |-> <<"g1", "g2">>],
          [mode |-> "change", col_names |-> <<"g1", "g2">>],
          [mode |-> "change", col_names |-> <<"g1", "g1">>]}

DeInit ==
    /\ obs \in {[c \in {groupby_key} |-> col] : col \in LabelColumns}
    /\ colsBefore = {}
    /\ deKind = "none"
    /\ deIdx1 = None
    /\ deIdx2 = None
    /\ deGroup1 = None
    /\ deGenes = <<>>
    /\ deOutcome = "none"
    /\ deError = ""
    /\ deResult = None
    /\ bfCalls = 0

DeIdle ==
    /\ obs = [c \in {groupby_key} |-> [x \in Cells |-> "a"]]
    /\ colsBefore = {}
    /\ deKind = "none"
    /\ deIdx1 = None
    /\ deIdx2 = None
    /\ deGroup1 = None
    /\ deGenes = <<>>
    /\ deOutcome = "none"
    /\ deError = ""
    /\ deResult = None
    /\ bfCalls = 0

DeCall(a, fail) ==
    LET r == DeCore(obs, a, fail)
    IN  /\ deOutcome = "none"
        /\ obs' = r.obs
        /\ colsBefore' = DOMAIN obs
        /\ deKind' = IF a.idx1 = None THEN "group" ELSE "mask"
        /\ deIdx1' = a.idx1
        /\ deIdx2' = a.idx2
        /\ deGroup1' = r.group1
        /\ deGenes' = a.col_names
        /\ deOutcome' = r.outcome
        /\ deError' = r.error
        /\ deResult' = r.result
        /\ bfCalls' = r.calls

\* _de_core called with groupby and group labels (idx1 is None)
DeCoreGroups ==
    /\ deOutcome = "none"
    /\ \E g1 \in Group1Args, g2 \in {None} \cup {Some(l) : l \in Labels},
       m \in Modes, fail \in Fails :
        DeCall([group1 |-> g1, group2 |-> g2, idx1 |-> None, idx2 |-> None,
                mode |-> m.mode, all_stats |-> fail.all_stats,
                col_names |-> m.col_names], fail)

\* _de_core called with masks (idx1 supplied)
DeCoreMasks ==
    /\ deOutcome = "none"
    /\ \E i1 \in SUBSET Cells, i2 \in {None} \cup {Some(x) : x \in SUBSET Cells},
       m \in Modes, fail \in Fails :
        DeCall([group1 |-> [kind |-> "none", val |-> <<>>], group2 |-> None,
                idx1 |-> Some(i1), idx2 |-> i2,
                mode |-> m.mode, all_stats |-> fail.all_stats,
                col_names |-> m.col_names], fail)

\* The caller takes the table or the exception: the frame of the call is gone,
\* adata.obs stays as the call left it.
DeReturn ==
    /\ deOutcome # "none"
    /\ colsBefore' = {}
    /\ deKind' = "none"
    /\ deIdx1' = None
    /\ deIdx2' = None
    /\ deGroup1' = None
    /\ deGenes' = <<>>
    /\ deOutcome' = "none"
    /\ deError' = ""
    /\ deResult' = None
    /\ bfCalls' = 0
    /\ UNCHANGED obs

\* ------------------------------------------------- claims on the DE engine

\* C1: a mask-based _de_core call that returns normally leaves adata.obs with
\* exactly the columns it had when the call began.
C1_ColumnsAfterEqualBefore ==
    (deKind = "mask" /\ deOutcome = "returned") => DOMAIN obs = colsBefore

\* C2: on every exit of a mask-based _de_core call, a raise included, adata.obs
\* no longer holds the temporary column.
C2_TempColumnGoneOnEveryExit ==
    (deKind = "mask" /\ deOutcome # "none") => temp_key \notin DOMAIN obs

\* the cells labelled "one" and "two" in the synthetic column of the last call
LabelledOne == deIdx1[1] \ deIdx2[1]
LabelledTwo == deIdx2[1]
SizeZeroRaised ==
    deOutcome = "raised" /\ deError = "ValueError: size zero" /\ bfCalls = 0

\* C3 as stated: with idx1 and idx2 given, the call raises the configuration
\* error, computing no Bayes factor, whenever no cell is labelled "one" or no
\* cell is labelled "two".
C3_RaisesWhenLabelledPopulationEmpty ==
    (deKind = "mask" /\ deIdx2 # None /\ deOutcome # "none"
        /\ (LabelledOne = {} \/ LabelledTwo = {}))
    => SizeZeroRaised

\* C3 amended: with idx1 and idx2 given, the call raises the configuration
\* error, computing no Bayes factor, exactly when the mask of idx1 or the mask of
\* idx2 selects no cell; two non-empty masks pass the check and reach
\* get_bayes_factors even when idx2 covers every cell of idx1.
C3_RaisesIffMaskEmpty ==
    (deKind = "mask" /\ deIdx2 # None /\ deOutcome # "none")
    => /\ (deIdx1[1] = {} \/ deIdx2[1] = {}) => SizeZeroRaised
       /\ (deIdx1[1] # {} /\ deIdx2[1] # {})
            => (deError # "ValueError: size zero" /\ bfCalls >= 1)

C3_Witness ==
    /\ deKind = "mask" /\ deIdx2 # None
    /\ deIdx1[1] # {} /\ deIdx2[1] = {}
    /\ SizeZeroRaised

\* C4: _de_core hands its caller nothing when it raises, and when it returns,
\* one table: one block per first-group label, in the order the labels were
\* iterated, each block with one row per gene.
C4_NoPartialResult ==
    /\ deOutcome = "raised" => deResult = None
    /\ deOutcome = "returned" =>
         /\ deResult # None /\ deGroup1 # None
         /\ Len(deResult[1]) = Len(deGroup1[1])
         /\ \A i \in 1..Len(deResult[1]) :
               /\ deResult[1][i].g1 = deGroup1[1][i]
               /\ deResult[1][i].rows = Len(deGenes)

\* the second group fails after the block of the first was built
C4_Witness ==
    /\ deOutcome = "raised" /\ bfCalls = 2 /\ deResult = None
    /\ deGroup1 = Some(<<"b", "a">>)

\* --------------------------------------- claims on _fdr_de_prediction

\* the largest rank whose cumulative expected FDR does not exceed the threshold
LargestRank(out, fdr) ==
    LET ok == {k \in 1..Len(out.cumulative_fdr) : out.cumulative_fdr[k] <= Float(fdr)}
    IN  IF ok = {} THEN 0 ELSE CHOOSE k \in ok : \A j \in ok : j <= k

\* C5: the genes flagged are those at ranks 1..d of the descending ordering, d
\* the largest rank whose cumulative expected FDR does not exceed fdr (0 when
\* there is none); the count the code uses equals that largest rank.
C5_CountIsLargestRank ==
    (fdrOut # None /\ ~fdrOut[1].raised) =>
        /\ fdrOut[1].d = LargestRank(fdrOut[1], fdrThr)
        /\ \A k \in 1..Len(fdrOut[1].sorted_flags) :
              fdrOut[1].sorted_flags[k] <=> (k <= LargestRank(fdrOut[1], fdrThr))

\* C6: the series returned has the index of posterior_probas, label for label
\* in the same order, and at each position the flag computed for that gene in
\* the sorted ordering.
C6_OriginalIndexOrder ==
    (fdrOut # None /\ ~fdrOut[1].raised) =>
        LET rows == fdrProbas.rows
            out == fdrOut[1]
        IN  /\ out.index = [i \in 1..Len(rows) |-> rows[i].label]
            /\ \A k \in 1..Len(rows) : out.flags[out.perm[k]] = out.sorted_flags[k]

\* ------------------------------------------------------ claims on the WVAE

\* the particle count a pass of inference ran with
EffectiveParticles == IF wvInf[1].n_samples_ = <<>> THEN 1 ELSE wvInf[1].n_samples_[1]

\* a tensor whose rank without particles is base carries P as a leading dimension
HasParticleDim(t, base, P) == Len(t) = base + 1 /\ t[1] = P
HasNoParticleDim(t, base) == Len(t) = base

GenerativeReturned == wvInf # None /\ wvGen # None /\ ~wvGen[1].raised

C8_LossOutcome ==
    (wvLoss # None /\ wvLoss[1].subtracted) =>
        LET ndim == MaxOf(Len(wvLoss[1].log_pjoint), Len(wvLoss[1].log_qjoint))
        IN  wvLoss[1].outcome =
              IF ndim # 2 THEN "AssertionError"
              ELSE IF wvCfg.loss_type \notin {"ELBO", "IWELBO"} THEN "ValueError"
              ELSE "returned"

\* a rank-3 log_ratios under an unknown loss type
C8_Witness ==
    /\ wvLoss # None /\ wvLoss[1].subtracted /\ Len(wvLoss[1].log_ratios) = 3
    /\ wvCfg.loss_type = "MSE" /\ wvLoss[1].outcome = "AssertionError"

\* C9: estimate_likelihood, on a batch and a dictionary whose z and library
\* the generative step accepts, returns the log-likelihood of x without raising.
C9_EstimateLikelihoodReturns ==
    (wvLik # None /\ wvLik[1].generative) => wvLik[1].outcome = "returned"

\* ---------------------------------------------------------------------- C10
\* What the batches added so far gave for one name: [tag, cls, shape] of every
\* forward pass that held a distribution under it, in the order added.
RECURSIVE Given(_, _)
Given(name, k) ==
    IF k = 0 THEN <<>>
    ELSE LET fo == concLog[k]
             hit == {i \in 1..Len(fo) : fo[i].key = name /\ fo[i].dist # None}
         IN  Given(name, k - 1) \o
             IF hit = {} THEN <<>>
             ELSE LET i == CHOOSE i \in hit : TRUE
                  IN  <<[tag |-> k, cls |-> fo[i].dist[1].cls, shape |-> fo[i].dist[1].shape]>>

GivenNames == {n \in {"z", "qz", "px"} : Given(n, Len(concLog)) # <<>>}

SameRank(name) ==
    LET g == Given(name, Len(concLog))
    IN  \A k \in 1..Len(g) : Len(g[k].shape) = Len(g[1].shape)

\* the merge the batches of one name call for: cells added up on axis 0 for
\* 2-D parameters, on axis 1 under the unchanged particle axis for 3-D ones
IsMergeOf(t, g) ==
    LET rank == Len(g[1].shape)
    IN  /\ Len(t.shape) = rank
        /\ t.src = [k \in 1..Len(g) |-> g[k].tag]
        /\ rank = 2 =>
              /\ t.shape[1] = SumSeq([k \in 1..Len(g) |-> g[k].shape[1]])
              /\ t.shape[2] = g[1].shape[2]
        /\ rank = 3 =>
              /\ t.shape[1] = g[1].shape[1]
              /\ t.shape[2] = SumSeq([k \in 1..Len(g) |-> g[k].shape[2]])
              /\ t.shape[3] = g[1].shape[3]

\* C10: the first get_concatenated_distributions after a sequence of
\* add_distributions, every name having been given parameters of one rank:
\* if some name's parameters are neither 2-D nor 3-D it raises ValueError;
\* otherwise it returns exactly one distribution per name, of the name's class,
\* every parameter of which is the batches' parameters concatenated in the order
\* added, along axis 0 (2-D) or axis 1 (3-D, particle axis unchanged).
C10_ConcatenatedInOrderAdded ==
    (concOut # None /\ concGets = 1 /\ \A n \in GivenNames : SameRank(n)) =>
        IF \E n \in GivenNames : Len(Given(n, Len(concLog))[1].shape) \notin {2, 3}
        THEN concOut[1].outcome = "raised" /\ concOut[1].error = "ValueError"
        ELSE /\ concOut[1].outcome = "returned"
             /\ DOMAIN concOut[1].dists = GivenNames
             /\ \A n \in GivenNames :
                   LET g == Given(n, Len(concLog))
                       d == concOut[1].dists[n]
                   IN  /\ d.cls = g[1].cls
                       /\ DOMAIN d.params = 1..Len(ArgConstraints(d.cls))
                       /\ \A i \in DOMAIN d.params : IsMergeOf(d.params[i], g)

\* two names merged from three passes of 3-D parameters with unequal cell counts
C10_Witness ==
    /\ concOut # None
    /\ concGets = 1
    /\ concOut[1].outcome = "returned"
    /\ DOMAIN concOut[1].dists = {"qz", "px"}
    /\ concOut[1].dists["qz"].params[1].shape = <<MaxParticles, 3, NLatent>>
    /\ concOut[1].dists["qz"].params[1].src = <<1, 3>>
    /\ concOut[1].dists["px"].params[1].src = <<2, 3>>


\* ------------------------------------------------- claims on the TrainRunner

\* a TrainRunner call has just returned to its caller
RunnerReturned == trCall # None /\ trCall[1].outcome = "returned"

\* C11: when a fit on an already-trained model with a history returns, every
\* metric of model.history_ that the new fit logged too holds its previous rows
\* followed by the rows of the new fit, these indexed len(previous) ..
\* len(previous) + len(new) - 1; when the first fit of an untrained model
\* returns, model.history_ is the logger's history.
C11_HistoryAppendedWithContinuedIndex ==
    (RunnerReturned /\ trCall[1].runner.logger.has_history) =>
        LET prev == trCall[1].prev
            new == trCall[1].runner.logger.history
        IN  /\ ~prev.is_trained_ => tmodel.history_ = Some(new)
            /\ (prev.is_trained_ /\ prev.history_ # None) =>
                  /\ tmodel.history_ # None
                  /\ \A metric \in DOMAIN prev.history_[1] \cap DOMAIN new :
                        LET before == prev.history_[1][metric]
                            after == tmodel.history_[1][metric]
                        IN  /\ Len(after) = Len(before) + Len(new[metric])
                            /\ SubSeq(after, 1, Len(before)) = before
                            /\ \A k \in 1..Len(new[metric]) :
                                  /\ after[Len(before) + k].index = Len(before) + k - 1
                                  /\ after[Len(before) + k].fit = new[metric][k].fit
                                  /\ after[Len(before) + k].epoch = new[metric][k].epoch

\* a third fit appended to the rows of the first two
C11_Witness ==
    /\ RunnerReturned /\ trFits = 3
    /\ tmodel.history_ # None
    /\ "elbo_train" \in DOMAIN tmodel.history_[1]
    /\ LET frame == tmodel.history_[1]["elbo_train"]
       IN  /\ Len(frame) = 4
           /\ [k \in 1..4 |-> frame[k].fit] = <<1, 2, 3, 3>>
           /\ [k \in 1..4 |-> frame[k].index] = <<0, 1, 2, 3>>

\* C12: a TrainRunner call on an already-trained model whose trainer's fit went
\* through, the logger exposing no history, returns instead of raising: the
\* merge is skipped with a warning, model.history_ is what it was, and the
\* post-training bookkeeping is done.
C12_MergeSkippedWithWarning ==
    (/\ trCall # None
     /\ trCall[1].prev.is_trained_
     /\ ~trCall[1].runner.fit_raises
     /\ ~trCall[1].runner.logger.has_history)
    => /\ trCall[1].outcome = "returned"
       /\ trCall[1].warned
       /\ tmodel.history_ = trCall[1].prev.history_
       /\ tmodel.is_trained_
       /\ tmodel.trainer = Some(trCall[1].runner.id)

\* the place of a step in the steps the call went through, 0 when absent
StepAt(events, e) ==
    IF \E k \in 1..Len(events) : events[k] = e
    THEN CHOOSE k \in 1..Len(events) : events[k] = e
    ELSE 0

\* C13: when a TrainRunner call returns, the model's train, validation and test
\* indices are the data splitter's after the fit, the module is in evaluation
\* mode, is_trained_ is True, the model is on the runner's device and
\* model.trainer is the runner's trainer; is_trained_ was set after the
\* trainer's fit and the history update, and a call that raises leaves
\* is_trained_ as it was.
C13_PostFitBookkeeping ==
    /\ RunnerReturned =>
          LET r == trCall[1].runner
              ev == trCall[1].events
          IN  /\ tmodel.train_indices = Some(r.split.train_idx)
              /\ tmodel.validation_indices = Some(r.split.val_idx)
              /\ tmodel.test_indices = Some(r.split.test_idx)
              /\ ~tmodel.training
              /\ tmodel.is_trained_
              /\ tmodel.device = r.device
              /\ tmodel.trainer = Some(r.id)
              /\ StepAt(ev, "fit") > 0
              /\ StepAt(ev, "_update_history") > StepAt(ev, "fit")
              /\ StepAt(ev, "is_trained_") > StepAt(ev, "_update_history")
    /\ (trCall # None /\ trCall[1].outcome = "raised") =>
          tmodel.is_trained_ = trCall[1].prev.is_trained_

\* a second fit on another device with another split than the first
C13_Witness ==
    /\ RunnerReturned /\ trFits = 2
    /\ trCall[1].prev.is_trained_
    /\ trCall[1].prev.device = "cpu" /\ tmodel.device = "cuda:0"
    /\ trCall[1].prev.validation_indices = Some(<<>>)
    /\ tmodel.validation_indices = Some(<<2>>)
    /\ tmodel.trainer = Some(2)

\* --------------------------------------- claims on re-finalization (C14)

\* storage as the add_distributions calls made so far built it
RECURSIVE StorageAfter(_)
StorageAfter(k) ==
    IF k = 0 THEN EmptyStorage
    ELSE AddDistributions(StorageAfter(k - 1), concLog[k], k)

\* C14: get_concatenated_distributions leaves self.storage as add_distributions
\* built it, and a second get_concatenated_distributions, batches having been
\* added in between or not, returns for every name the merge of all the batches
\* added so far (their parameters being all 2-D or all 3-D).
C14_FinalizationKeepsStorage ==
    /\ (concOut # None /\ concOut[1].outcome = "returned") =>
          storage = StorageAfter(Len(concLog))
    /\ (/\ concOut # None /\ concGets = 2
        /\ \A n \in GivenNames :
              SameRank(n) /\ Len(Given(n, Len(concLog))[1].shape) \in {2, 3})
       => /\ concOut[1].outcome = "returned"
          /\ DOMAIN concOut[1].dists = GivenNames
          /\ \A n \in GivenNames :
                \A i \in DOMAIN concOut[1].dists[n].params :
                    IsMergeOf(concOut[1].dists[n].params[i], Given(n, Len(concLog)))

\* ---------------------------------------------------------------------- C15

\* loss was given the outputs of inference and generative on one batch
LossOnOwnOutputs == wvInf # None /\ wvGen # None /\ wvLoss # None

\* C15: loss on the outputs of inference and generative on one batch: with P >= 2
\* particles log_ratios has the shape (P, cells) and the rank-2 check passes;
\* with one particle (n_particles = 1 or n_samples = 1) log_ratios has rank 1
\* and loss fails with the shape-contract violation.
C15_LossAcceptsOwnOutputsIffParticles ==
    LossOnOwnOutputs =>
        IF EffectiveParticles >= 2
        THEN /\ wvLoss[1].subtracted
             /\ wvLoss[1].log_ratios = <<EffectiveParticles, wvBatch[1].cells>>
             /\ wvLoss[1].outcome \in {"returned", "ValueError"}
             /\ wvLoss[1].outcome = "returned" <=> wvCfg.loss_type \in {"ELBO", "IWELBO"}
        ELSE /\ wvLoss[1].subtracted
             /\ wvLoss[1].log_ratios = <<wvBatch[1].cells>>
             /\ wvLoss[1].outcome = "AssertionError"

\* one particle asked of a module built with several: the rank-2 check fails
C15_Witness ==
    /\ LossOnOwnOutputs
    /\ wvCfg.n_particles > 1 /\ wvInf[1].n_samples_ = <<>>
    /\ wvCfg.loss_type = "IWELBO"
    /\ wvLoss[1].log_ratios = <<wvBatch[1].cells>>
    /\ wvLoss[1].outcome = "AssertionError"

\* ---------------------------------------------------------- specifications
\* the DE engine on one AnnData
Init == DeInit /\ FdrIdle /\ WvIdle /\ ConcInit /\ TrInit
Next ==
    \/ DeCoreGroups /\ UNCHANGED <<fdrVars, wvVars, concVars, trVars>>
    \/ DeCoreMasks /\ UNCHANGED <<fdrVars, wvVars, concVars, trVars>>
    \/ DeReturn /\ UNCHANGED <<fdrVars, wvVars, concVars, trVars>>
Spec == Init /\ [][Next]_vars

\* _fdr_de_prediction on every series and threshold of the bounds
InitFdr == FdrInit /\ DeIdle /\ WvIdle /\ ConcInit /\ TrInit
NextFdr == FdrPredict /\ UNCHANGED <<deVars, wvVars, concVars, trVars>>
SpecFdr == InitFdr /\ [][NextFdr]_vars

\* the WVAE module, every configuration of the bounds
InitWvae == WvInit /\ DeIdle /\ FdrIdle /\ ConcInit /\ TrInit
NextWvae ==
    \/ WvInference /\ UNCHANGED <<deVars, fdrVars, concVars, trVars>>
    \/ WvGenerative /\ UNCHANGED <<deVars, fdrVars, concVars, trVars>>
    \/ WvLoss /\ UNCHANGED <<deVars, fdrVars, concVars, trVars>>
    \/ WvLossOn /\ UNCHANGED <<deVars, fdrVars, concVars, trVars>>
    \/ WvEstimateLikelihood /\ UNCHANGED <<deVars, fdrVars, concVars, trVars>>
    \/ WvDone /\ UNCHANGED <<deVars, fdrVars, concVars, trVars>>
SpecWvae == InitWvae /\ [][NextWvae]_vars

\* one DistributionsConcatenator
InitConc == ConcInit /\ DeIdle /\ FdrIdle /\ WvIdle /\ TrInit
NextConc ==
    \/ ConcAdd /\ UNCHANGED <<deVars, fdrVars, wvVars, trVars>>
    \/ ConcGet /\ UNCHANGED <<deVars, fdrVars, wvVars, trVars>>
    \/ ConcReturn /\ UNCHANGED <<deVars, fdrVars, wvVars, trVars>>
SpecConc == InitConc /\ [][NextConc]_vars

\* one model trained by successive TrainRunners
InitTrain == TrInit /\ DeIdle /\ FdrIdle /\ WvIdle /\ ConcInit
NextTrain ==
    \/ TrCall /\ UNCHANGED <<deVars, fdrVars, wvVars, concVars>>
    \/ TrReturn /\ UNCHANGED <<deVars, fdrVars, wvVars, concVars>>
SpecTrain == InitTrain /\ [][NextTrain]_vars
====
